---- MODULE Spec2Model ----
(***************************************************************************)
(* A model of experiments/notebooks/grep.py: one pass over a directory of  *)
(* Jupyter notebooks that collects the URLs passed to pd.read_csv, removes *)
(* the files json.load rejects, and writes the sorted URLs to urls.txt.    *)
(*                                                                         *)
(* Python strings are sequences of one-character strings, so that `in`,    *)
(* str.split, the regular expression and sorted() are computed character   *)
(* by character.  A run is the script's module body, one action per        *)
(* statement group; an uncaught exception ends the run in pc = "aborted".  *)
(***************************************************************************)
EXTENDS Integers, Sequences, FiniteSets, TLC

\* The most directory entries os.listdir returns in a modelled run.
MaxEntries == 3

(***************************************************************************)
(* Characters and string primitives                                        *)
(***************************************************************************)
NL == "\n"

\* The two quote characters of the pattern's closing class ['\"].
IsQuote(c) == c = "'" \/ c = "\""

\* The ASCII characters chr(32)..chr(95) in code-point order.
AsciiLow == <<" ", "!", "\"", "#", "$", "%", "&", "'", "(", ")", "*", "+", ",", "-", ".",
    "/", "0", "1", "2", "3", "4", "5", "6", "7", "8", "9", ":", ";", "<", "=", ">", "?",
    "@", "A", "B", "C", "D", "E", "F", "G", "H", "I", "J", "K", "L", "M", "N", "O", "P",
    "Q", "R", "S", "T", "U", "V", "W", "X", "Y", "Z", "[", "\\", "]", "^", "_">>

\* The ASCII characters chr(97)..chr(126) in code-point order.
AsciiHigh == <<"a", "b", "c", "d", "e", "f", "g", "h", "i", "j", "k", "l", "m", "n", "o",
    "p", "q", "r", "s", "t", "u", "v", "w", "x", "y", "z", "{", "|", "}", "~">>

\* ord(c) for the characters that occur in the modelled texts.
Ord(c) ==
    IF c = NL THEN 10
    ELSE IF \E k \in 1..Len(AsciiLow) : AsciiLow[k] = c
         THEN 31 + (CHOOSE k \in 1..Len(AsciiLow) : AsciiLow[k] = c)
         ELSE 96 + (CHOOSE k \in 1..Len(AsciiHigh) : AsciiHigh[k] = c)

\* Whether p occurs in s starting at index k.
StartsAt(s, p, k) ==
    /\ k >= 1
    /\ k + Len(p) - 1 <= Len(s)
    /\ \A j \in 1..Len(p) : s[k + j - 1] = p[j]

\* Python's (p in s) for strings.
Contains(s, p) == \E k \in 1..(Len(s) - Len(p) + 1) : StartsAt(s, p, k)

\* s.split("\n"): the pieces between newlines, empty pieces kept.
Split(s) ==
    LET nls == {k \in 1..Len(s) : s[k] = NL}
        \* the index of the j-th newline; 0 before the first, Len(s) + 1 after the last
        at(j) == IF j = 0 THEN 0
                 ELSE IF j > Cardinality(nls) THEN Len(s) + 1
                 ELSE CHOOSE k \in nls : Cardinality({m \in nls : m < k}) = j - 1
    IN  [j \in 1..(Cardinality(nls) + 1) |-> SubSeq(s, at(j - 1) + 1, at(j) - 1)]

\* Python's str < str: by code point, a proper prefix first.
StrLess(a, b) ==
    \E k \in 1..Len(b) :
        /\ \A j \in 1..(k - 1) : j <= Len(a) /\ a[j] = b[j]
        /\ k - 1 <= Len(a)
        /\ (k > Len(a) \/ Ord(a[k]) < Ord(b[k]))

SetMin(S) == CHOOSE x \in S : \A y \in S : x <= y

(***************************************************************************)
(* The texts: the literals of the script and the lines of the notebooks    *)
(***************************************************************************)
\* "pd.read_csv"
PD_READ_CSV == <<"p", "d", ".", "r", "e", "a", "d", "_", "c", "s", "v">>

\* "https://"
HTTPS == <<"h", "t", "t", "p", "s", ":", "/", "/">>

\* "http://"
HTTP == <<"h", "t", "t", "p", ":", "/", "/">>

\* "import pandas as pd\ndf = pd.read_csv('https://example.com/data.csv')\nd = pd.read_csv(\"https://dup.example.com/d.csv\")\n"
SrcExample == <<"i", "m", "p", "o", "r", "t", " ", "p", "a", "n", "d", "a", "s", " ", "a",
    "s", " ", "p", "d", "\n", "d", "f", " ", "=", " ", "p", "d", ".", "r", "e", "a", "d",
    "_", "c", "s", "v", "(", "'", "h", "t", "t", "p", "s", ":", "/", "/", "e", "x", "a",
    "m", "p", "l", "e", ".", "c", "o", "m", "/", "d", "a", "t", "a", ".", "c", "s", "v",
    "'", ")", "\n", "d", " ", "=", " ", "p", "d", ".", "r", "e", "a", "d", "_", "c", "s",
    "v", "(", "\"", "h", "t", "t", "p", "s", ":", "/", "/", "d", "u", "p", ".", "e", "x",
    "a", "m", "p", "l", "e", ".", "c", "o", "m", "/", "d", ".", "c", "s", "v", "\"", ")",
    "\n">>

\* "pd.read_csv('http://md.org/m.csv')"
LineMd == <<"p", "d", ".", "r", "e", "a", "d", "_", "c", "s", "v", "(", "'", "h", "t", "t",
    "p", ":", "/", "/", "m", "d", ".", "o", "r", "g", "/", "m", ".", "c", "s", "v", "'", ")">>

\* "df = pd.read_csv(\"http://a.com/x.csv\")"
LineDq == <<"d", "f", " ", "=", " ", "p", "d", ".", "r", "e", "a", "d", "_", "c", "s", "v",
    "(", "\"", "h", "t", "t", "p", ":", "/", "/", "a", ".", "c", "o", "m", "/", "x", ".",
    "c", "s", "v", "\"", ")">>

\* "u = 'http://no.call/u.csv'\n"
LineNoCall == <<"u", " ", "=", " ", "'", "h", "t", "t", "p", ":", "/", "/", "n", "o", ".",
    "c", "a", "l", "l", "/", "u", ".", "c", "s", "v", "'", "\n">>

\* "l = pd.read_csv('local.csv')\n"
LineLocal == <<"l", " ", "=", " ", "p", "d", ".", "r", "e", "a", "d", "_", "c", "s", "v",
    "(", "'", "l", "o", "c", "a", "l", ".", "c", "s", "v", "'", ")", "\n">>

\* "pd.read_csv('https://z.com/a.csv'); pd.read_csv(\"http://two.org/2\")\n"
LineTwo == <<"p", "d", ".", "r", "e", "a", "d", "_", "c", "s", "v", "(", "'", "h", "t",
    "t", "p", "s", ":", "/", "/", "z", ".", "c", "o", "m", "/", "a", ".", "c", "s", "v",
    "'", ")", ";", " ", "p", "d", ".", "r", "e", "a", "d", "_", "c", "s", "v", "(", "\"",
    "h", "t", "t", "p", ":", "/", "/", "t", "w", "o", ".", "o", "r", "g", "/", "2", "\"",
    ")", "\n">>

\* "pd.read_csv('https://a.com/b.csv')\n"
LineB == <<"p", "d", ".", "r", "e", "a", "d", "_", "c", "s", "v", "(", "'", "h", "t", "t",
    "p", "s", ":", "/", "/", "a", ".", "c", "o", "m", "/", "b", ".", "c", "s", "v", "'",
    ")", "\n">>

\* "pd.read_csv('https://dup.example.com/d.csv')"
SrcDup == <<"p", "d", ".", "r", "e", "a", "d", "_", "c", "s", "v", "(", "'", "h", "t", "t",
    "p", "s", ":", "/", "/", "d", "u", "p", ".", "e", "x", "a", "m", "p", "l", "e", ".",
    "c", "o", "m", "/", "d", ".", "c", "s", "v", "'", ")">>

\* "pd.read_csv(\"http://\"+h+\"/x.csv\")"
LineAdj == <<"p", "d", ".", "r", "e", "a", "d", "_", "c", "s", "v", "(", "\"", "h", "t",
    "t", "p", ":", "/", "/", "\"", "+", "h", "+", "\"", "/", "x", ".", "c", "s", "v", "\"",
    ")">>

\* "pd.read_csv(http://x\n'http://y.com/z.csv')"
LineNl == <<"p", "d", ".", "r", "e", "a", "d", "_", "c", "s", "v", "(", "h", "t", "t", "p",
    ":", "/", "/", "x", "\n", "'", "h", "t", "t", "p", ":", "/", "/", "y", ".", "c", "o",
    "m", "/", "z", ".", "c", "s", "v", "'", ")">>

\* "print(1)\nu = 'http://no.call/u.csv'\nl = pd.read_csv('local.csv')"
SrcPlain == <<"p", "r", "i", "n", "t", "(", "1", ")", "\n", "u", " ", "=", " ", "'", "h",
    "t", "t", "p", ":", "/", "/", "n", "o", ".", "c", "a", "l", "l", "/", "u", ".", "c",
    "s", "v", "'", "\n", "l", " ", "=", " ", "p", "d", ".", "r", "e", "a", "d", "_", "c",
    "s", "v", "(", "'", "l", "o", "c", "a", "l", ".", "c", "s", "v", "'", ")">>

\* "pd.read_csv('http://first.org/f.csv')\n"
LineFirst == <<"p", "d", ".", "r", "e", "a", "d", "_", "c", "s", "v", "(", "'", "h", "t",
    "t", "p", ":", "/", "/", "f", "i", "r", "s", "t", ".", "o", "r", "g", "/", "f", ".",
    "c", "s", "v", "'", ")", "\n">>

\* "# pd.read_csv http://a.com/x.csv"
LineNoQuote == <<"#", " ", "p", "d", ".", "r", "e", "a", "d", "_", "c", "s", "v", " ", "h",
    "t", "t", "p", ":", "/", "/", "a", ".", "c", "o", "m", "/", "x", ".", "c", "s", "v">>

\* "pd.read_csv('http://untyped.org/t.csv')"
SrcUntyped == <<"p", "d", ".", "r", "e", "a", "d", "_", "c", "s", "v", "(", "'", "h", "t",
    "t", "p", ":", "/", "/", "u", "n", "t", "y", "p", "e", "d", ".", "o", "r", "g", "/",
    "t", ".", "c", "s", "v", "'", ")">>

\* "http://old.org/o.csv\n"
PrevRun == <<"h", "t", "t", "p", ":", "/", "/", "o", "l", "d", ".", "o", "r", "g", "/",
    "o", ".", "c", "s", "v", "\n">>

(***************************************************************************)
(* re.findall(r"(https?://.+?)['\"]", line)                                *)
(***************************************************************************)
\* The length of "https://" or "http://" at index k of s, or 0 when neither starts there.
SchemeLen(s, k) ==
    IF StartsAt(s, HTTPS, k) THEN Len(HTTPS)
    ELSE IF StartsAt(s, HTTP, k) THEN Len(HTTP)
    ELSE 0

\* The index of the quote that closes a match starting at k, or 0 when no match starts at k:
\* after the scheme, .+? takes one or more characters other than a newline (the first of
\* them may itself be a quote), as few as possible, and a quote follows.
MatchEnd(s, k) ==
    LET n == SchemeLen(s, k)
        b == k + n
        ends == {e \in (b + 1)..Len(s) : IsQuote(s[e]) /\ \A j \in b..(e - 1) : s[j] # NL}
    IN  IF n = 0 \/ ends = {} THEN 0 ELSE SetMin(ends)

RECURSIVE FindAllFrom(_, _)
\* The matches found scanning from index k: the leftmost index a match starts at gives
\* the first, and the scan resumes after the quote that closed it.
FindAllFrom(s, k) ==
    LET starts == {j \in k..Len(s) : MatchEnd(s, j) # 0}
    IN  IF starts = {} THEN <<>>
        ELSE LET b == SetMin(starts)
                 e == MatchEnd(s, b)
             IN  <<SubSeq(s, b, e - 1)>> \o FindAllFrom(s, e + 1)

\* The pattern with a greedy .+ in place of .+?: one match, up to the last quote that
\* no newline separates from the scheme.
FindAllGreedy(s) ==
    LET last(b) == {e \in (b + SchemeLen(s, b) + 1)..Len(s) :
                        IsQuote(s[e]) /\ \A j \in (b + SchemeLen(s, b))..(e - 1) : s[j] # NL}
        starts == {b \in 1..Len(s) : SchemeLen(s, b) # 0 /\ last(b) # {}}
    IN  IF starts = {} THEN <<>>
        ELSE <<SubSeq(s, SetMin(starts),
                      (CHOOSE e \in last(SetMin(starts)) : \A x \in last(SetMin(starts)) : x <= e) - 1)>>

\* The list findall returns: group 1 of each leftmost, non-overlapping match.
FindAll(s) == FindAllFrom(s, 1)

\* The two substring tests a line must pass before the pattern is applied.
\* The line loop without its first test.
HasCallAlways(ln) == TRUE

HasCall(ln) == Contains(ln, PD_READ_CSV)

HasScheme(ln) == Contains(ln, HTTPS) \/ Contains(ln, HTTP)

(***************************************************************************)
(* sorted(urls) and the text written to urls.txt                           *)
(***************************************************************************)
RECURSIVE SortedDescending(_)
\* sorted(urls, reverse=True)
SortedDescending(S) ==
    IF S = {} THEN <<>>
    ELSE LET m == CHOOSE x \in S : \A y \in S : y = x \/ StrLess(y, x)
         IN  <<m>> \o SortedDescending(S \ {m})

RECURSIVE Sorted(_)
Sorted(S) ==
    IF S = {} THEN <<>>
    ELSE LET m == CHOOSE x \in S : \A y \in S : y = x \/ StrLess(x, y)
         IN  <<m>> \o Sorted(S \ {m})

RECURSIVE WriteAll(_)
\* fw.write(url); fw.write("\n") for each url of the sequence, in order.
WriteAll(seq) ==
    IF seq = <<>> THEN <<>>
    ELSE Head(seq) \o <<NL>> \o WriteAll(Tail(seq))

\* urls = {url}: the set replaced, not extended.
AddReplacing(S, u) == {u}

\* urls.add(url)
Add(S, u) == S \cup {u}

(***************************************************************************)
(* Parsed JSON documents and the directory entries of the modelled runs    *)
(***************************************************************************)
\* A cell: which of the keys "cell_type" and "source" it has, and their values.  A
\* source is a str (kind "str", in text) or a list of str (kind "list", in lines).
StrCell(type, text) ==
    [has_type |-> TRUE, cell_type |-> type, has_source |-> TRUE,
     kind |-> "str", text |-> text, lines |-> <<>>]

ListCell(type, lines) ==
    [has_type |-> TRUE, cell_type |-> type, has_source |-> TRUE,
     kind |-> "list", text |-> <<>>, lines |-> lines]

\* A cell with no "source" key.
BareCell(type) ==
    [has_type |-> TRUE, cell_type |-> type, has_source |-> FALSE,
     kind |-> "str", text |-> <<>>, lines |-> <<>>]

\* A cell with no "cell_type" key.
UntypedCell(text) ==
    [has_type |-> FALSE, cell_type |-> "", has_source |-> TRUE,
     kind |-> "str", text |-> text, lines |-> <<>>]

\* A JSON object with a "cells" key.
Notebook(cells) == [isdict |-> TRUE, has_cells |-> TRUE, cells |-> cells]

\* The JSON object {}.
EmptyObject == [isdict |-> TRUE, has_cells |-> FALSE, cells |-> <<>>]

\* The JSON array []: a value json.load returns that is no dict.
JsonArray == [isdict |-> FALSE, has_cells |-> FALSE, cells |-> <<>>]

NbExample == Notebook(<<StrCell("code", SrcExample)>>)

NbMixed ==
    Notebook(<<ListCell("markdown", <<LineMd>>),
               ListCell("code", <<LineDq, LineNoCall, LineLocal, LineTwo, LineB>>),
               ListCell("code", <<>>),
               BareCell("markdown"),
               StrCell("code", SrcDup)>>)

NbEdge == Notebook(<<ListCell("code", <<LineAdj, LineNl>>), StrCell("code", <<>>)>>)

NbPlain == Notebook(<<StrCell("code", SrcPlain), ListCell("markdown", <<LineMd>>)>>)

NbNoType == Notebook(<<UntypedCell(SrcUntyped)>>)

NbNoSource == Notebook(<<BareCell("code")>>)

NbNoQuote == Notebook(<<ListCell("code", <<LineFirst, LineNoQuote>>)>>)

\* The names a modelled directory may hold.
Names ==
    {"example.ipynb", "mixed.ipynb", "edge.ipynb", "plain.ipynb", "empty.ipynb",
     "notype.ipynb", "nosource.ipynb", "noquote.ipynb", "array.ipynb",
     "malformed.ipynb", "undecodable.ipynb", "subdir"}

\* What the entry of each name is on disk: a subdirectory, or a regular file whose bytes
\* are malformed JSON, are not decodable text, or are the JSON text of a document.
Entry(name) ==
    CASE name = "example.ipynb"     -> [kind |-> "json", value |-> NbExample]
      [] name = "mixed.ipynb"       -> [kind |-> "json", value |-> NbMixed]
      [] name = "edge.ipynb"        -> [kind |-> "json", value |-> NbEdge]
      [] name = "plain.ipynb"       -> [kind |-> "json", value |-> NbPlain]
      [] name = "empty.ipynb"       -> [kind |-> "json", value |-> EmptyObject]
      [] name = "notype.ipynb"      -> [kind |-> "json", value |-> NbNoType]
      [] name = "nosource.ipynb"    -> [kind |-> "json", value |-> NbNoSource]
      [] name = "noquote.ipynb"     -> [kind |-> "json", value |-> NbNoQuote]
      [] name = "array.ipynb"       -> [kind |-> "json", value |-> JsonArray]
      [] name = "malformed.ipynb"   -> [kind |-> "malformed", value |-> JsonArray]
      [] name = "undecodable.ipynb" -> [kind |-> "undecodable", value |-> JsonArray]
      [] name = "subdir"            -> [kind |-> "dir", value |-> JsonArray]

\* sys.argv[1]
dirname == "data"

\* os.path.join(dirname, filename), as its two components.
PathJoin(d, f) == <<d, f>>

\* The orders os.listdir may return the entries of a directory in.
Listings ==
    {l \in UNION {[1..n -> Names] : n \in 0..MaxEntries} :
        \A a, b \in 1..Len(l) : a # b => l[a] # l[b]}

\* urls.txt before the run: absent, or what a previous run wrote.
NoFile == [exists |-> FALSE, data |-> <<>>]

OldFile == [exists |-> TRUE, data |-> PrevRun]

(***************************************************************************)
(* State                                                                   *)
(***************************************************************************)
VARIABLES
    listing,    \* the list os.listdir(dirname) returned
    present,    \* the names the directory holds now
    urls_txt,   \* the file urls.txt
    stdout,     \* the lines printed
    pc,         \* where the script is
    error,      \* the uncaught exception that ended the run, "" when none
    bound,      \* the names among "nb", "cell", "source", "line", "url" that are bound
    i,          \* how many entries the for loop has taken from listing
    nb,         \* the parsed document, meaningful when "nb" is bound
    ci,         \* how many cells the cell loop has taken
    cell,       \* the last cell the cell loop took, meaningful when "cell" is bound
    source,     \* the lines of the last source read, meaningful when "source" is bound
    li,         \* how many lines the line loop has taken
    line,       \* the current line, meaningful when "line" is bound
    url,        \* the name url: the last URL extracted or written, when "url" is bound
    urls        \* the set of URLs

vars ==
    <<listing, present, urls_txt, stdout, pc, error, bound, i, nb, ci, cell, source, li,
      line, url, urls>>

filename == listing[i]

full_filename == PathJoin(dirname, filename)

\* nb.get("cells", [])
Cells(doc) == IF doc.has_cells THEN doc.cells ELSE <<>>

Init ==
    /\ listing \in Listings
    /\ present = {listing[k] : k \in 1..Len(listing)}
    /\ urls_txt \in {NoFile, OldFile}
    /\ stdout = <<>>
    /\ pc = "for"
    /\ error = ""
    /\ bound = {}
    /\ i = 0
    /\ nb = JsonArray
    /\ ci = 0
    /\ cell = BareCell("")
    /\ source = <<>>
    /\ li = 0
    /\ line = <<>>
    /\ url = <<>>
    /\ urls = {}

(***************************************************************************)
(* The script, statement by statement                                      *)
(***************************************************************************)
\* An exception nothing catches: the interpreter exits, and nothing later runs.
Raise(e) ==
    /\ pc' = "aborted"
    /\ error' = e

\* json.load(f): the document, or the exception the bytes make it raise.
JsonLoad(name) ==
    LET e == Entry(name)
    IN  CASE e.kind = "json"        -> [ok |-> TRUE, exc |-> "", value |-> e.value]
          [] e.kind = "malformed"   -> [ok |-> FALSE, exc |-> "JSONDecodeError", value |-> e.value]
          [] e.kind = "undecodable" -> [ok |-> FALSE, exc |-> "UnicodeDecodeError", value |-> e.value]

\* The exceptions the except clause names.
Caught == {"JSONDecodeError", "UnicodeDecodeError"}

\* source.split("\n") when source is a str, source itself when it is a list.
SourceLines(c) == IF c.kind = "str" THEN Split(c.text) ELSE c.lines

\* not source: the empty str or the empty list.
IsFalsy(c) == IF c.kind = "str" THEN c.text = <<>> ELSE c.lines = <<>>

\* The cell loop without its test of the cell type.
IsCodeAlways(c) == TRUE

\* cell["cell_type"] != "code" is false.
IsCode(c) == c.cell_type = "code"

\* for filename in os.listdir(dirname): the next entry.
NextFile ==
    /\ pc = "for"
    /\ i < Len(listing)
    /\ i' = i + 1
    /\ pc' = "open"
    /\ UNCHANGED <<listing, cell, present, urls_txt, stdout, error, bound, nb, ci, source, li,
                   line, url, urls>>

\* The for loop is exhausted.
EndOfListing ==
    /\ pc = "for"
    /\ i = Len(listing)
    /\ pc' = "write"
    /\ UNCHANGED <<listing, cell, present, urls_txt, stdout, error, bound, i, nb, ci, source, li,
                   line, url, urls>>

\* open inside the try, with OSError among the exceptions caught.
OpenInsideTry ==
    /\ pc = "open"
    /\ IF Entry(filename).kind = "dir"
       THEN /\ stdout' = Append(stdout, <<"removing", full_filename>>)
            /\ present' = present \ {filename}
            /\ pc' = "for"
       ELSE pc' = "load" /\ UNCHANGED <<stdout, present>>
    /\ UNCHANGED <<listing, cell, urls_txt, error, bound, i, nb, ci, source, li, line, url, urls>>

\* with open(full_filename, "rb") as f: a subdirectory cannot be opened, and the
\* statement is outside the try.
Open ==
    /\ pc = "open"
    /\ IF Entry(filename).kind = "dir"
       THEN Raise("IsADirectoryError")
       ELSE pc' = "load" /\ error' = error
    /\ UNCHANGED <<listing, cell, present, urls_txt, stdout, bound, i, nb, ci, source, li, line,
                   url, urls>>

\* try: nb = json.load(f), when it returns.
Load ==
    /\ pc = "load"
    /\ JsonLoad(filename).ok
    /\ nb' = JsonLoad(filename).value
    /\ bound' = bound \cup {"nb"}
    /\ pc' = "cells"
    /\ UNCHANGED <<listing, cell, present, urls_txt, stdout, error, i, ci, source, li, line, url,
                   urls>>

\* The handler with a continue at its end.
ExceptContinue ==
    /\ pc = "load"
    /\ ~JsonLoad(filename).ok
    /\ JsonLoad(filename).exc \in Caught
    /\ stdout' = Append(stdout, <<"removing", full_filename>>)
    /\ present' = present \ {filename}
    /\ pc' = "for"
    /\ UNCHANGED <<listing, cell, urls_txt, error, bound, i, nb, ci, source, li, line, url, urls>>

\* except (JSONDecodeError, UnicodeDecodeError): print and os.remove; nb is not
\* assigned, and control goes on to the statement after the try.
Except ==
    /\ pc = "load"
    /\ ~JsonLoad(filename).ok
    /\ JsonLoad(filename).exc \in Caught
    /\ stdout' = Append(stdout, <<"removing", full_filename>>)
    /\ present' = present \ {filename}
    /\ pc' = "cells"
    /\ UNCHANGED <<listing, cell, urls_txt, error, bound, i, nb, ci, source, li, line, url, urls>>

\* for cell in nb.get("cells", []): the evaluation of the iterable.
GetCells ==
    /\ pc = "cells"
    /\ IF "nb" \notin bound THEN Raise("NameError") /\ ci' = ci
       ELSE IF ~nb.isdict THEN Raise("AttributeError") /\ ci' = ci
       ELSE pc' = "cell" /\ error' = error /\ ci' = 0
    /\ UNCHANGED <<listing, cell, present, urls_txt, stdout, bound, i, nb, source, li, line, url,
                   urls>>

\* The cell loop with cell.get("cell_type") and cell.get("source", []).
NextCellTolerant ==
    /\ pc = "cell"
    /\ IF ci = Len(Cells(nb))
       THEN pc' = "for" /\ UNCHANGED <<ci, cell, bound, source, li>>
       ELSE LET c == Cells(nb)[ci + 1]
            IN  /\ ci' = ci + 1
                /\ cell' = c
                /\ IF ~c.has_type \/ ~IsCode(c)
                   THEN /\ pc' = "cell"
                        /\ bound' = bound \cup {"cell"}
                        /\ UNCHANGED <<source, li>>
                   ELSE IF ~c.has_source \/ IsFalsy(c)
                   THEN /\ pc' = "cell"
                        /\ bound' = bound \cup {"cell", "source"}
                        /\ source' = <<>>
                        /\ UNCHANGED li
                   ELSE /\ pc' = "line"
                        /\ bound' = bound \cup {"cell", "source"}
                        /\ source' = SourceLines(c)
                        /\ li' = 0
    /\ UNCHANGED <<listing, present, urls_txt, stdout, error, i, nb, line, url, urls>>

\* One turn of the cell loop, up to the line loop: the two subscripts, the two
\* continues and the split.  source is assigned before it is tested, so an empty
\* source ('' or []) is what the name holds after the second continue.  cell is the
\* loop variable: it is bound as soon as a cell is taken, and keeps the last cell
\* taken when the loop ends and when nb is bound anew.  When the cells are exhausted
\* the with block ends.
NextCell ==
    /\ pc = "cell"
    /\ IF ci = Len(Cells(nb))
       THEN pc' = "for" /\ error' = error /\ UNCHANGED <<ci, cell, bound, source, li>>
       ELSE LET c == Cells(nb)[ci + 1]
            IN  /\ ci' = ci + 1
                /\ cell' = c
                /\ IF ~c.has_type
                   THEN /\ Raise("KeyError")
                        /\ bound' = bound \cup {"cell"}
                        /\ UNCHANGED <<source, li>>
                   ELSE IF ~IsCode(c)
                   THEN /\ pc' = "cell" /\ error' = error
                        /\ bound' = bound \cup {"cell"}
                        /\ UNCHANGED <<source, li>>
                   ELSE IF ~c.has_source
                   THEN /\ Raise("KeyError")
                        /\ bound' = bound \cup {"cell"}
                        /\ UNCHANGED <<source, li>>
                   ELSE IF IsFalsy(c)
                   THEN /\ pc' = "cell" /\ error' = error
                        /\ bound' = bound \cup {"cell", "source"}
                        /\ source' = <<>>
                        /\ UNCHANGED li
                   ELSE /\ pc' = "line" /\ error' = error
                        /\ bound' = bound \cup {"cell", "source"}
                        /\ source' = SourceLines(c)
                        /\ li' = 0
    /\ UNCHANGED <<listing, present, urls_txt, stdout, i, nb, line, url, urls>>

\* The line loop with the match list tested before it is indexed.
NextLineGuarded ==
    /\ pc = "line"
    /\ IF li = Len(source)
       THEN pc' = "cell" /\ UNCHANGED <<li, line, bound, url, urls>>
       ELSE LET ln == source[li + 1]
            IN  /\ li' = li + 1
                /\ line' = ln
                /\ pc' = "line"
                /\ IF ~HasCall(ln) \/ ~HasScheme(ln) \/ FindAll(ln) = <<>>
                   THEN bound' = bound \cup {"line"} /\ UNCHANGED <<url, urls>>
                   ELSE /\ bound' = bound \cup {"line", "url"}
                        /\ url' = FindAll(ln)[1]
                        /\ urls' = Add(urls, FindAll(ln)[1])
    /\ UNCHANGED <<listing, cell, present, urls_txt, stdout, error, i, nb, ci, source>>

\* One turn of the line loop: the two substring tests, findall(...)[0] and urls.add.
NextLine ==
    /\ pc = "line"
    /\ IF li = Len(source)
       THEN pc' = "cell" /\ error' = error /\ UNCHANGED <<li, line, bound, url, urls>>
       ELSE LET ln == source[li + 1]
            IN  /\ li' = li + 1
                /\ line' = ln
                /\ IF ~HasCall(ln) \/ ~HasScheme(ln)
                   THEN /\ pc' = "line" /\ error' = error
                        /\ bound' = bound \cup {"line"}
                        /\ UNCHANGED <<url, urls>>
                   ELSE IF FindAll(ln) = <<>>
                   THEN /\ Raise("IndexError")
                        /\ bound' = bound \cup {"line"}
                        /\ UNCHANGED <<url, urls>>
                   ELSE /\ pc' = "line" /\ error' = error
                        /\ bound' = bound \cup {"line", "url"}
                        /\ url' = FindAll(ln)[1]
                        /\ urls' = Add(urls, FindAll(ln)[1])
    /\ UNCHANGED <<listing, cell, present, urls_txt, stdout, i, nb, ci, source>>

\* with open("urls.txt", "wt") as fw: the file is truncated, then one line per url.
\* The loop variable is the name url: after the loop it is the last url written.
WriteUrls ==
    /\ pc = "write"
    /\ urls_txt' = [exists |-> TRUE, data |-> WriteAll(Sorted(urls))]
    /\ IF urls = {}
       THEN UNCHANGED <<url, bound>>
       ELSE /\ url' = Sorted(urls)[Len(Sorted(urls))]
            /\ bound' = bound \cup {"url"}
    /\ pc' = "done"
    /\ UNCHANGED <<listing, cell, present, stdout, error, i, nb, ci, source, li, line, urls>>

Next ==
    \/ NextFile
    \/ EndOfListing
    \/ Open
    \/ Load
    \/ Except
    \/ GetCells
    \/ NextCell
    \/ NextLine
    \/ WriteUrls

Spec == Init /\ [][Next]_vars

(***************************************************************************)
(* Vocabulary of the properties                                            *)
(***************************************************************************)
Range(f) == {f[k] : k \in DOMAIN f}

\* A corrupt file: its bytes are not valid JSON or not validly decodable text.
IsCorrupt(name) == Entry(name).kind \in {"malformed", "undecodable"}

IsParsed(name) == Entry(name).kind = "json"

IsDirectory(name) == Entry(name).kind = "dir"

\* The diagnostic 'removing <path>' for an entry.
Diagnostic(name) == <<"removing", PathJoin(dirname, name)>>

\* The run has gone past the try statement of entry k.
PastTry(k) == k < i \/ (k = i /\ pc \notin {"open", "load"})

\* The run has gone past the evaluation of nb.get for the current entry.
PastGetCells == i >= 1 /\ pc \notin {"open", "load", "cells"}

\* The line loop has just dealt with the value of line.
LineDone == pc = "line" /\ li >= 1

\* The run ended before the output file was opened for writing.
NotWritten == urls_txt \in {NoFile, OldFile}

\* The lines a cell's source stands for.
CellLines(c) == IF c.kind = "str" THEN Range(Split(c.text)) ELSE Range(c.lines)

\* The indices of ln at which "http://" or "https://" starts.
Starts(ln) == {b \in 1..Len(ln) : StartsAt(ln, HTTP, b) \/ StartsAt(ln, HTTPS, b)}

\* The index just after the scheme that starts at b.
AfterScheme(ln, b) == IF StartsAt(ln, HTTPS, b) THEN b + 8 ELSE b + 7

\* The quotes that can close a URL starting at b: at least one character lies between
\* the scheme and the quote, and no newline does.
Closers(ln, b) ==
    {e \in (AfterScheme(ln, b) + 1)..Len(ln) :
        IsQuote(ln[e]) /\ \A j \in AfterScheme(ln, b)..(e - 1) : ln[j] # NL}

\* Some URL can be extracted from ln.
Extractable(ln) == \E b \in Starts(ln) : Closers(ln, b) # {}

\* The URL of ln: from the first scheme that some quote can close, to just before the
\* first quote that can close it.
FirstUrl(ln) ==
    LET b == SetMin({x \in Starts(ln) : Closers(ln, x) # {}})
    IN  SubSeq(ln, b, SetMin(Closers(ln, b)) - 1)

\* The URL the line would give if it ran from the first scheme on the line to just
\* before the next quote after that scheme started; <<>> when no quote follows.
UrlToNextQuote(ln) ==
    LET b == SetMin(Starts(ln))
        qs == {e \in (b + 1)..Len(ln) : IsQuote(ln[e])}
    IN  IF qs = {} THEN <<>> ELSE SubSeq(ln, b, SetMin(qs) - 1)

\* A line that passes the two substring tests.
Passes(ln) == Contains(ln, PD_READ_CSV) /\ (Contains(ln, HTTP) \/ Contains(ln, HTTPS))

\* The lines of the code cells of a document that pass both tests.
CodeLines(doc) ==
    UNION {CellLines(c) : c \in {d \in Range(Cells(doc)) :
                                    d.has_type /\ d.cell_type = "code" /\ d.has_source}}

\* The URLs a document yields.
DocUrls(doc) == {FirstUrl(ln) : ln \in {x \in CodeLines(doc) : Passes(x) /\ Extractable(x)}}

\* The URLs of the entries of the listing that parse.
ParsedUrls == UNION {DocUrls(Entry(n).value) : n \in {m \in Range(listing) : IsParsed(m)}}

\* The lines of a text, when every line ends in a newline.
TextLines(data) == SubSeq(Split(data), 1, Len(Split(data)) - 1)

\* A text is a sequence of newline-terminated lines.
Terminated(data) == data = <<>> \/ data[Len(data)] = NL

(***************************************************************************)
(* Properties                                                              *)
(***************************************************************************)
\* C1: every corrupt entry the run has handled, wherever it is in the listing, has been
\* deleted and no other file has, its diagnostic has been printed, and handling it
\* did not end the run: the run goes on to the remaining entries and to the write.
C1_CorruptEntryRemovedAndRunGoesOn ==
    /\ \A k \in 1..i :
         (IsCorrupt(listing[k]) /\ PastTry(k)) =>
            /\ listing[k] \notin present
            /\ Diagnostic(listing[k]) \in Range(stdout)
            /\ ~(pc = "aborted" /\ k = i)
    /\ present = Range(listing) \ {listing[k] : k \in {j \in 1..i : IsCorrupt(listing[j]) /\ PastTry(j)}}

\* C2: when the run completes, urls.txt holds exactly the accumulated URLs, one per
\* newline-terminated line, in strictly ascending order (so each exactly once), and
\* nothing of its prior contents.
C2_OutputSortedDeduplicated ==
    pc = "done" =>
        /\ urls_txt.exists
        /\ Terminated(urls_txt.data)
        /\ Range(TextLines(urls_txt.data)) = urls
        /\ \A k \in 1..(Len(TextLines(urls_txt.data)) - 1) :
             StrLess(TextLines(urls_txt.data)[k], TextLines(urls_txt.data)[k + 1])

\* A completed run over two files that yield the same URL, and more URLs besides.
C2_Witness ==
    /\ pc = "done"
    /\ {"example.ipynb", "mixed.ipynb"} \subseteq Range(listing)
    /\ Cardinality(urls) >= 4

\* C3 as stated: the URL taken from a line that passes both tests runs from the first
\* scheme on the line to just before the next quote after it.
C3_UrlEndsAtNextQuote == (LineDone /\ Passes(line)) => url = UrlToNextQuote(line)

\* C3 amended: the URL taken from a line that passes both tests is the pattern's first
\* match: it starts at the first scheme that is followed, with no newline between, by a
\* quote at least one character after the scheme, and ends just before the first such
\* quote; it is in the set, and a line adds at most that one URL.
C3_UrlIsFirstPatternMatch ==
    /\ []((LineDone /\ Passes(line)) => (url = FirstUrl(line) /\ url \in urls))
    /\ [][urls' \subseteq urls \cup {url'}]_vars

\* A line with two URLs has been dealt with, and only its first URL is in the set.
C3_Witness == LineDone /\ line = LineTwo /\ Cardinality(Range(FindAll(line))) = 2

\* C4: the line loop only ever runs on a cell whose cell_type is "code", and a step that
\* puts a new URL into the set has just taken a line of that code cell that contains
\* 'pd.read_csv' and contains 'http://' or 'https://'.
C4_UrlsOnlyFromMatchingCodeLines ==
    /\ [](pc = "line" => (ci >= 1 /\ cell.has_type /\ cell.cell_type = "code"))
    /\ [][urls' # urls =>
            /\ pc' = "line" /\ li' >= 1
            /\ cell'.has_type /\ cell'.cell_type = "code"
            /\ line' \in CellLines(cell')
            /\ Contains(line', PD_READ_CSV)
            /\ Contains(line', HTTP) \/ Contains(line', HTTPS)]_vars

\* The run has passed a markdown cell that holds a matching line, and a code line with
\* 'pd.read_csv' and no scheme, and has taken URLs from the code lines only.
C4_Witness ==
    /\ LineDone
    /\ filename = "mixed.ipynb"
    /\ line = LineLocal
    /\ urls = {FirstUrl(LineDq)}

\* A directory of well-formed notebooks none of whose code cells has a matching line.
QuietDirectory ==
    /\ listing # <<>>
    /\ \A n \in Range(listing) :
        /\ IsParsed(n)
        /\ Entry(n).value.isdict
        /\ \A c \in Range(Cells(Entry(n).value)) : c.has_type /\ c.has_source
        /\ \A ln \in CodeLines(Entry(n).value) : ~Passes(ln)

\* C5: over a directory of well-formed notebooks with no matching lines the run never
\* aborts and never stops short of the write, deletes nothing, prints nothing, and the
\* output file it creates has no line.
C5_QuietDirectoryGivesEmptyOutput ==
    QuietDirectory =>
        /\ pc # "aborted"
        /\ pc # "done" => ENABLED Next
        /\ present = Range(listing)
        /\ stdout = <<>>
        /\ urls = {}
        /\ pc = "done" => urls_txt = [exists |-> TRUE, data |-> <<>>]

\* A completed run over such a directory, one of whose notebooks has cells.
C5_Witness == QuietDirectory /\ pc = "done" /\ "plain.ipynb" \in Range(listing)

\* C6 as stated: once the run is past the evaluation of nb.get for a corrupt entry, it
\* has raised an error: it never scans a notebook for that entry.
C6_ScanAfterCorruptAlwaysFails == (PastGetCells /\ IsCorrupt(filename)) => pc = "aborted"

\* The entries before the current one that parsed.
ParsedBefore == {k \in 1..(i - 1) : IsParsed(listing[k])}

\* C6 amended: after a corrupt file is deleted control falls through to the cell scan
\* of the same entry.  When no earlier entry parsed, nb is unbound and the scan raises
\* NameError, which ends the run; when one did, nb still holds the document of the
\* most recent one, and the scan runs over it again and raises nothing.
C6_ScanAfterCorruptUsesLastParsed ==
    (i >= 1 /\ IsCorrupt(filename) /\ PastTry(i)) =>
        /\ ("nb" \in bound) = (ParsedBefore # {})
        /\ ParsedBefore # {} =>
            /\ nb = Entry(listing[CHOOSE k \in ParsedBefore : \A j \in ParsedBefore : j <= k]).value
            /\ pc # "aborted"
        /\ (ParsedBefore = {} /\ PastGetCells) => (pc = "aborted" /\ error = "NameError")

\* The line loop runs over the previous notebook while the current entry is corrupt.
C6_Witness == i >= 2 /\ IsCorrupt(filename) /\ LineDone /\ Passes(line)

\* The corrupt entries the run has handled.
Removed == {listing[k] : k \in {j \in 1..i : IsCorrupt(listing[j]) /\ PastTry(j)}}

\* C7: a code-cell line that passes both tests and from which the pattern extracts
\* nothing ends the run there with IndexError, and never lets it go on: the output
\* file is not written (absent, or the previous run's), no later entry is touched,
\* the files deleted before stay deleted, and nothing runs afterwards.
C7_NoMatchLineIsFatal ==
    /\ (LineDone /\ Passes(line)) => Extractable(line)
    /\ (pc = "aborted" /\ error = "IndexError") =>
        /\ Passes(line) /\ ~Extractable(line)
        /\ cell.cell_type = "code" /\ line \in CellLines(cell)
        /\ NotWritten
        /\ present = Range(listing) \ Removed
        /\ \A k \in (i + 1)..Len(listing) : listing[k] \in present
        /\ Len(stdout) = Cardinality(Removed)
        /\ ~ENABLED Next

\* The run ended on such a line after it deleted a file and collected URLs, with a
\* previous run's output still in place.
C7_Witness ==
    /\ pc = "aborted" /\ error = "IndexError"
    /\ Removed # {}
    /\ FirstUrl(LineFirst) \in urls
    /\ urls_txt = OldFile

\* C8 as stated: a cell without "cell_type" or without "source" does not abort the run.
C8_MissingCellKeysTolerated ==
    ~(pc = "aborted" /\ error = "KeyError" /\ ci >= 1
        /\ (~cell.has_type \/ ~cell.has_source))

\* C8 amended: only the absence of "cells" is defaulted: a notebook without it gives no
\* URL and the run goes on to the next entry.  A cell without "cell_type", and a code
\* cell without "source", raise KeyError, which ends the run; a cell of another type
\* without "source" is skipped.
C8_OnlyCellsIsDefaulted ==
    /\ []((PastGetCells /\ IsParsed(filename) /\ nb.isdict /\ ~nb.has_cells) =>
            pc \in {"cell", "for", "write", "done"})
    /\ []((pc \in {"cell", "line"} /\ ci >= 1) =>
            (cell.has_type /\ (cell.cell_type = "code" => cell.has_source)))
    /\ []((pc = "aborted" /\ error = "KeyError") =>
            (ci >= 1 /\ (~cell.has_type \/ (cell.cell_type = "code" /\ ~cell.has_source))))
    /\ [][(pc = "cell" /\ ~nb.has_cells) => (pc' = "for" /\ urls' = urls)]_vars

\* The run ended with KeyError on a code cell that has no "source".
C8_Witness ==
    /\ pc = "aborted" /\ error = "KeyError"
    /\ cell.has_type /\ ~cell.has_source
    /\ "empty.ipynb" \in {listing[k] : k \in 1..(i - 1)}

\* C9 as stated: an entry that is a subdirectory is handled like a corrupt file: its
\* diagnostic is printed, it is removed, and the run goes on.
C9_DirectoryHandledLikeCorrupt ==
    (i >= 1 /\ IsDirectory(filename) /\ pc # "open") =>
        /\ Diagnostic(filename) \in Range(stdout)
        /\ filename \notin present
        /\ pc # "aborted"

\* C9 amended: an entry that is a subdirectory makes open raise IsADirectoryError
\* outside the try: nothing is printed for it, it is not removed, and the run ends
\* at that entry without writing the output file.
C9_DirectoryEndsTheRun ==
    (i >= 1 /\ IsDirectory(filename) /\ pc # "open") =>
        /\ pc = "aborted" /\ error = "IsADirectoryError"
        /\ Diagnostic(filename) \notin Range(stdout)
        /\ filename \in present
        /\ NotWritten
        /\ ~ENABLED Next

\* The run ended at a subdirectory that came after a parsed and a corrupt entry.
C9_Witness ==
    /\ pc = "aborted" /\ error = "IsADirectoryError"
    /\ i = 3 /\ Removed # {}

\* C10: a run that reaches the write has written exactly the URLs of the entries that
\* parsed, so the file depends on the set of entries and not on their order; and
\* while the current entry is corrupt no step changes the set.
C10_OutputIsUnionOverParsedEntries ==
    /\ [](pc = "done" =>
            /\ Range(TextLines(urls_txt.data)) = ParsedUrls
            /\ urls_txt.data = WriteAll(Sorted(ParsedUrls)))
    /\ [][(i >= 1 /\ IsCorrupt(filename) /\ i' = i) => urls' = urls]_vars

\* A completed run in which a corrupt entry came between two notebooks with URLs.
C10_Witness ==
    /\ pc = "done"
    /\ Len(listing) = 3
    /\ IsCorrupt(listing[2])
    /\ DocUrls(Entry(listing[1]).value) # {}
    /\ DocUrls(Entry(listing[3]).value) \ DocUrls(Entry(listing[1]).value) # {}

====
